---- MODULE Spec2Model ----
(***************************************************************************)
(* A model of src/main.py, the URL shortener service.                      *)
(*                                                                         *)
(* The state is the SQLite database (the urls and analytics tables) and    *)
(* one request handler per connection.  Every handler                      *)
(* opens its own connection (get_db_connection) and runs its SQL           *)
(* statements one at a time; handlers of different workers interleave      *)
(* between statements.  A SELECT reads the committed tables.  The first    *)
(* INSERT or UPDATE of a handler opens a transaction and takes SQLite's    *)
(* write lock, which it keeps until conn.commit(): the other connections   *)
(* see none of its writes before the commit and cannot write meanwhile,    *)
(* so a transaction of one write, from the write to its commit, is one     *)
(* step.  redirect_url writes twice: between its INSERT and its UPDATE the *)
(* click row is pending in its connection and the other connections do     *)
(* not write.  A connection closed before conn.commit() rolls back.        *)
(*                                                                         *)
(* The service runs as one worker or as several.  One worker runs the      *)
(* handlers one after the other (they are coroutines that never await),    *)
(* and resp keeps the response of the call before while the next call      *)
(* runs, whose response tells whether it repeats that call.  With several  *)
(* workers each response is delivered before the service takes its next    *)
(* step.                                                                   *)
(*                                                                         *)
(* Time is counted in days and measured from the present: a timestamp is   *)
(* held as its distance from datetime.now(), which is 0, and the passing   *)
(* of a day (Tick) moves every stored timestamp one day back.  The code    *)
(* reads expires_at only to compare it with now, so a timestamp that is    *)
(* already in the past stays where it is.                                  *)
(***************************************************************************)
EXTENDS Integers, Sequences, FiniteSets, TLC

\* Python's None and SQL's NULL, for a string.
None == "None"

\* An optional integer or timestamp: <<>> when absent (None, NULL), <<n>> when n.
Absent == <<>>

\* Bound of the model: the clicks recorded.
MaxClicks == 2

\* The request handlers that may run at the same time, one connection each.
Procs == {1, 2}

\* The request bodies and paths the clients send.
URLs == {"https://a.io", "https://b.io", "not a url"}

\* The strings generate_short_code can return; a custom code is one of them.
CodeSpace == {"k1", "k2"}
CustomCodes == CodeSpace \cup {None}
ExpireDays == {Absent, <<-1>>, <<0>>, <<1>>}

\* expires_in_days of the requests whose handler returns without reading it.
UnreadDays == {Absent, <<1>>}

\* urllib.parse.urlparse, on the URLs of the model: scheme and netloc.
urlparse(url) ==
    CASE url = "https://a.io" -> [scheme |-> "https", netloc |-> "a.io"]
      [] url = "https://b.io" -> [scheme |-> "https", netloc |-> "b.io"]
      [] OTHER -> [scheme |-> "", netloc |-> ""]

\* is_valid_url: all([result.scheme, result.netloc]).
is_valid_url(url) ==
    LET result == urlparse(url)
    IN  result.scheme # "" /\ result.netloc # ""

\* Python's truth value of an Optional[int]: None and 0 are false.
truthy(x) == x # Absent /\ x[1] # 0

\* datetime.datetime.now(): the present.
datetime_now == 0

\* sqlite3's adapter stores a datetime as ISO text.
isoformat(t) == <<t>>

\* datetime.datetime.fromisoformat, on the text the adapter stored.
fromisoformat(s) == s[1]

\* expires_at as shorten_url computes it.
calc_expires_at(days) ==
    IF truthy(days) THEN isoformat(datetime_now + days[1]) ELSE Absent

VARIABLES
    workers,     \* the worker processes serving requests
    urls,        \* the urls table: a sequence of rows, rowid = position
    analytics,   \* the analytics table: a sequence of rows
    pc,          \* pc[p]: the statement handler p executes next, or "idle"
    req,         \* req[p]: the request p serves
    loc,         \* loc[p]: the handler's local variables
    resp,        \* the response sent last and not yet delivered, else NoResp
    redirects    \* redirects[c]: the 302 responses sent for code c

vars == <<workers, urls, analytics, pc, req, loc, resp, redirects>>

Min(S) == CHOOSE x \in S : \A y \in S : x <= y

NoReq == [op |-> None, original_url |-> None, custom_code |-> None,
          expires_in_days |-> Absent, short_code |-> None]
NoLoc == [short_code |-> None, original_url |-> None, pending |-> FALSE]
NoResp == [op |-> None, original_url |-> None, custom_code |-> None,
           expires_in_days |-> Absent, short_code |-> None, status |-> 0,
           location |-> None, body |-> <<>>, repeat |-> FALSE]

\* The requests of POST /api/shorten. expires_in_days is drawn where the handler
\* first reads it (ShortenInsert), or where it returns without reading it; an
\* invalid URL comes without a custom code.
ShortenRequests ==
    {r \in {[op |-> "shorten", original_url |-> u, custom_code |-> c,
             expires_in_days |-> Absent, short_code |-> None] :
                u \in URLs, c \in CustomCodes} :
        is_valid_url(r.original_url) \/ r.custom_code = None}

\* The requests that name a short code in their path.
CodeRequests(op) ==
    {[op |-> op, original_url |-> None, custom_code |-> None,
      expires_in_days |-> Absent, short_code |-> c] : c \in CodeSpace}

LinksRequest == [NoReq EXCEPT !.op = "links"]

InFlight(op) == Cardinality({q \in Procs : req[q].op = op})

\* ORDER BY created_at DESC (clicked_at DESC): the rows are inserted one writer
\* at a time and stamped CURRENT_TIMESTAMP at the insert, so the timestamps never
\* decrease with the rowid and newest first is the descending order of rowids.
RECURSIVE NewestFirst(_)
NewestFirst(ids) ==
    IF ids = {} THEN <<>>
    ELSE LET m == CHOOSE x \in ids : \A y \in ids : y <= x
         IN  <<m>> \o NewestFirst(ids \ {m})

\* ------------------------------------------------------------ the tables

\* The rowids of the rows with this short code.
RowsByCode(rows, code) == {i \in 1..Len(rows) : rows[i].short_code = code}

\* The lookup compares the URL with the wrong column.
ActiveRowsByUrlWrongColumn(rows, url) ==
    {i \in 1..Len(rows) : rows[i].short_code = url /\ rows[i].is_active}

\* SELECT * FROM urls WHERE original_url = ? AND is_active = 1
ActiveRowsByUrl(rows, url) ==
    {i \in 1..Len(rows) : rows[i].original_url = url /\ rows[i].is_active}

\* The lookup leaves out AND is_active = 1.
AnyRowsByCode(rows, code) ==
    {i \in 1..Len(rows) : rows[i].short_code = code}

\* SELECT * FROM urls WHERE short_code = ? AND is_active = 1
ActiveRowsByCode(rows, code) ==
    {i \in 1..Len(rows) : rows[i].short_code = code /\ rows[i].is_active}

\* cursor.fetchone(): the first row of a scan in rowid order; None when ids = {},
\* which the callers test first.
fetchone(rows, ids) == rows[Min(ids)]

\* The row INSERT INTO urls (original_url, short_code, expires_at) makes:
\* the defaults of CREATE TABLE urls fill the other columns.
NewUrlRow(rows, url, code, expires_at) ==
    [id |-> Len(rows) + 1, original_url |-> url, short_code |-> code,
     clicks |-> 0, is_active |-> TRUE, expires_at |-> expires_at]

\* The column is declared without UNIQUE.
NoUniqueConstraint(rows, code) == FALSE

\* short_code TEXT UNIQUE NOT NULL: whether the insert violates the constraint.
UniqueViolation(rows, code) == RowsByCode(rows, code) # {}

\* The UPDATE has no WHERE: it counts the click on every row.
IncrementClicksEveryRow(rows, code) ==
    [i \in 1..Len(rows) |-> [rows[i] EXCEPT !.clicks = @ + 1]]

\* The UPDATE counts the click only WHERE the row is still active.
IncrementClicksIfActive(rows, code) ==
    [i \in 1..Len(rows) |->
        IF rows[i].short_code = code /\ rows[i].is_active
        THEN [rows[i] EXCEPT !.clicks = @ + 1]
        ELSE rows[i]]

\* UPDATE urls SET clicks = clicks + 1 WHERE short_code = ?
IncrementClicks(rows, code) ==
    [i \in 1..Len(rows) |->
        IF rows[i].short_code = code
        THEN [rows[i] EXCEPT !.clicks = @ + 1]
        ELSE rows[i]]

\* The UPDATE flips the flag: SET is_active = NOT is_active.
DeactivateToggle(rows, code) ==
    [i \in 1..Len(rows) |->
        IF rows[i].short_code = code
        THEN [rows[i] EXCEPT !.is_active = ~@]
        ELSE rows[i]]

\* UPDATE urls SET is_active = 0 WHERE short_code = ?
Deactivate(rows, code) ==
    [i \in 1..Len(rows) |->
        IF rows[i].short_code = code
        THEN [rows[i] EXCEPT !.is_active = FALSE]
        ELSE rows[i]]

\* The row INSERT INTO analytics makes.
NewClickRow(rows, code) ==
    [id |-> Len(rows) + 1, short_code |-> code]

\* The rowids of the analytics rows of a code.
ClicksOf(rows, code) == {i \in 1..Len(rows) : rows[i].short_code = code}

\* ------------------------------------------------------------ responses

\* Whether request r is the request the one worker answered last.
Repeats(r) ==
    /\ workers = 1
    /\ resp.op = r.op
    /\ resp.original_url = r.original_url
    /\ resp.custom_code = r.custom_code
    /\ r.op = "shorten" \/ resp.short_code = r.short_code

\* A response, with the request it answers; short_code is the code of the body
\* for POST /api/shorten and the code of the path for the other requests.
Response(r, status, code, location, body) ==
    [op |-> r.op, original_url |-> r.original_url,
     custom_code |-> r.custom_code, expires_in_days |-> r.expires_in_days,
     short_code |-> code, status |-> status,
     location |-> location, body |-> body, repeat |-> Repeats(r)]

\* Another connection holds SQLite's write lock: it has written and not yet
\* committed.
WriteLocked(p) == \E q \in Procs \ {p} : pc[q] = "r_update"

\* Whether handler p may take a step.
Turn(p) ==
    /\ p <= workers
    /\ workers = 1 \/ resp = NoResp

\* The handler returns or raises: the response goes out, the connection closes.
Respond(p, r, status, code, location, body) ==
    /\ Turn(p)
    /\ resp' = Response(r, status, code, location, body)
    /\ pc' = [pc EXCEPT ![p] = "idle"]
    /\ req' = [req EXCEPT ![p] = NoReq]
    /\ loc' = [loc EXCEPT ![p] = NoLoc]

\* The handler goes on to its next statement.
Goto(p, r, label, l) ==
    /\ Turn(p)
    /\ pc' = [pc EXCEPT ![p] = label]
    /\ req' = [req EXCEPT ![p] = r]
    /\ loc' = [loc EXCEPT ![p] = l]
    /\ resp' = resp

Init ==
    /\ workers = Cardinality(Procs)
    /\ urls = <<>>
    /\ analytics = <<>>
    /\ pc = [p \in Procs |-> "idle"]
    /\ req = [p \in Procs |-> NoReq]
    /\ loc = [p \in Procs |-> NoLoc]
    /\ resp = NoResp
    /\ redirects = [c \in CodeSpace |-> 0]

\* The state of a service started with one worker.
InitOne ==
    /\ workers = 1
    /\ urls = <<>>
    /\ analytics = <<>>
    /\ pc = [p \in Procs |-> "idle"]
    /\ req = [p \in Procs |-> NoReq]
    /\ loc = [p \in Procs |-> NoLoc]
    /\ resp = NoResp
    /\ redirects = [c \in CodeSpace |-> 0]

\* A day passes: every expiration still ahead, or due now, comes a day closer.
Tick ==
    /\ workers = 1 \/ resp = NoResp
    /\ urls' = [i \in 1..Len(urls) |->
                 IF urls[i].expires_at # Absent
                    /\ fromisoformat(urls[i].expires_at) >= datetime_now
                 THEN [urls[i] EXCEPT !.expires_at =
                          isoformat(fromisoformat(urls[i].expires_at) - 1)]
                 ELSE urls[i]]
    /\ urls' # urls
    /\ UNCHANGED <<workers, analytics, pc, req, loc, resp, redirects>>

\* The response goes out to the client.
Deliver ==
    /\ resp # NoResp
    /\ resp' = NoResp
    /\ UNCHANGED <<workers, urls, analytics, pc, req, loc, redirects>>


\* ------------------------------------------------- POST /api/shorten

\* The handler returns the existing row only to a request with no custom code.
ShortenLookupHonoursCustom(p) ==
    /\ pc[p] = "idle"
    /\ \E r \in ShortenRequests :
        IF ~is_valid_url(r.original_url)
        THEN Respond(p, r, 400, None, None, <<>>)
        ELSE LET ids == ActiveRowsByUrl(urls, r.original_url) IN
             IF ids # {} /\ r.custom_code = None
             THEN \E days \in UnreadDays :
                    Respond(p, [r EXCEPT !.expires_in_days = days], 200,
                            fetchone(urls, ids).short_code, None, <<>>)
             ELSE /\ \/ Len(urls) + InFlight("shorten") < Cardinality(CodeSpace)
                     \/ /\ r.custom_code # None
                        /\ RowsByCode(urls, r.custom_code) # {}
                  /\ Goto(p, r, IF r.custom_code = None THEN "s_gen" ELSE "s_check", NoLoc)
    /\ UNCHANGED <<workers, urls, analytics, redirects>>

\* shorten_url, to the check for an existing active row of the URL: an invalid
\* URL is refused, an existing row is returned as it is. A call that would
\* insert starts only while the rows and the inserts under way leave a code of
\* CodeSpace free, or to meet the conflict of its custom code.
ShortenLookup(p) ==
    /\ pc[p] = "idle"
    /\ \E r \in ShortenRequests :
        IF ~is_valid_url(r.original_url)
        THEN Respond(p, r, 400, None, None, <<>>)
        ELSE LET ids == ActiveRowsByUrl(urls, r.original_url) IN
             IF ids # {}
             THEN \E days \in UnreadDays :
                    Respond(p, [r EXCEPT !.expires_in_days = days], 200,
                            fetchone(urls, ids).short_code, None, <<>>)
             ELSE /\ \/ Len(urls) + InFlight("shorten") < Cardinality(CodeSpace)
                     \/ /\ r.custom_code # None
                        /\ RowsByCode(urls, r.custom_code) # {}
                  /\ Goto(p, r, IF r.custom_code = None THEN "s_gen" ELSE "s_check", NoLoc)
    /\ UNCHANGED <<workers, urls, analytics, redirects>>

\* The generator is seeded alike at every call: it draws the same code again.
ShortenGenerateSameDraw(p) ==
    /\ pc[p] = "s_gen"
    /\ \E short_code \in {CHOOSE c \in CodeSpace : TRUE} :
        IF RowsByCode(urls, short_code) # {}
        THEN Goto(p, req[p], "s_gen", [loc[p] EXCEPT !.short_code = short_code])
        ELSE Goto(p, req[p], "s_insert", [loc[p] EXCEPT !.short_code = short_code])
    /\ UNCHANGED <<workers, urls, analytics, redirects>>

\* One turn of the loop that draws a code until the table has no row with it.
ShortenGenerate(p) ==
    /\ pc[p] = "s_gen"
    /\ \E short_code \in CodeSpace :
        IF RowsByCode(urls, short_code) # {}
        THEN Goto(p, req[p], "s_gen", [loc[p] EXCEPT !.short_code = short_code])
        ELSE Goto(p, req[p], "s_insert", [loc[p] EXCEPT !.short_code = short_code])
    /\ UNCHANGED <<workers, urls, analytics, redirects>>

\* The check looks for the custom code among the active rows only.
ShortenCheckCustomActiveOnly(p) ==
    /\ pc[p] = "s_check"
    /\ IF ActiveRowsByCode(urls, req[p].custom_code) # {}
       THEN Respond(p, req[p], 400, None, None, <<>>)
       ELSE Goto(p, req[p], "s_insert",
                 [loc[p] EXCEPT !.short_code = req[p].custom_code])
    /\ UNCHANGED <<workers, urls, analytics, redirects>>

\* The check of a custom code.
ShortenCheckCustom(p) ==
    /\ pc[p] = "s_check"
    /\ IF RowsByCode(urls, req[p].custom_code) # {}
       THEN Respond(p, req[p], 400, None, None, <<>>)
       ELSE Goto(p, req[p], "s_insert",
                 [loc[p] EXCEPT !.short_code = req[p].custom_code])
    /\ UNCHANGED <<workers, urls, analytics, redirects>>

\* The expiration is computed; INSERT INTO urls, conn.commit() and the
\* response. The UNIQUE constraint raises sqlite3.IntegrityError, which nothing
\* catches: a 500.
ShortenInsert(p) ==
    /\ pc[p] = "s_insert"
    /\ ~WriteLocked(p)
    /\ IF UniqueViolation(urls, loc[p].short_code)
       THEN /\ Respond(p, req[p], 500, None, None, <<>>)
            /\ UNCHANGED urls
       ELSE \E days \in ExpireDays :
            LET r == [req[p] EXCEPT !.expires_in_days = days]
                expires_at == calc_expires_at(days)
            IN  /\ urls' = Append(urls, NewUrlRow(urls, r.original_url,
                                                  loc[p].short_code, expires_at))
                /\ Respond(p, r, 200, loc[p].short_code, None, <<>>)
    /\ UNCHANGED <<workers, analytics, redirects>>

\* ------------------------------------------------- GET /{short_code}

\* The comparison is written the wrong way round.
ExpiredBackwards(url_data) ==
    /\ url_data.expires_at # Absent
    /\ datetime_now < fromisoformat(url_data.expires_at)

\* Whether the row read has expired: datetime.now() > expires_at.
\* The comparison takes the expiration instant itself as expired.
ExpiredAtEqual(url_data) ==
    /\ url_data.expires_at # Absent
    /\ datetime_now >= fromisoformat(url_data.expires_at)

Expired(url_data) ==
    /\ url_data.expires_at # Absent
    /\ datetime_now > fromisoformat(url_data.expires_at)

\* redirect_url, to the check of the expiration: the row is read, a missing or
\* inactive row is a 404, an expired one a 410. A call that would record a
\* click starts only below MaxClicks.
ResolveLookup(p) ==
    /\ pc[p] = "idle"
    /\ \E r \in CodeRequests("resolve") :
        LET ids == ActiveRowsByCode(urls, r.short_code) IN
        IF ids = {}
        THEN Respond(p, r, 404, r.short_code, None, <<>>)
        ELSE LET url_data == fetchone(urls, ids) IN
             IF Expired(url_data)
             THEN Respond(p, r, 410, r.short_code, None, <<>>)
             ELSE /\ Len(analytics) + InFlight("resolve") < MaxClicks
                  /\ Goto(p, r, "r_insert",
                          [NoLoc EXCEPT !.original_url = url_data.original_url])
    /\ UNCHANGED <<workers, urls, analytics, redirects>>

\* The connection commits every statement at once (isolation_level = None).
ResolveInsertAutocommit(p) ==
    /\ pc[p] = "r_insert"
    /\ ~WriteLocked(p)
    /\ analytics' = Append(analytics, NewClickRow(analytics, req[p].short_code))
    /\ Goto(p, req[p], "r_update", loc[p])
    /\ UNCHANGED <<workers, urls, redirects>>

\* INSERT INTO analytics: the first write of the transaction takes the write
\* lock; the row is pending until the commit.
ResolveInsert(p) ==
    /\ pc[p] = "r_insert"
    /\ ~WriteLocked(p)
    /\ Goto(p, req[p], "r_update", [loc[p] EXCEPT !.pending = TRUE])
    /\ UNCHANGED <<workers, urls, analytics, redirects>>

\* UPDATE urls SET clicks = clicks + 1, conn.commit(), which makes the pending
\* row and the count visible together, and the 302 to the URL read by the
\* lookup.
ResolveRecord(p) ==
    /\ pc[p] = "r_update"
    /\ analytics' = IF loc[p].pending
                    THEN Append(analytics, NewClickRow(analytics, req[p].short_code))
                    ELSE analytics
    /\ urls' = IncrementClicks(urls, req[p].short_code)
    /\ redirects' = [redirects EXCEPT ![req[p].short_code] = @ + 1]
    /\ Respond(p, req[p], 302, req[p].short_code, loc[p].original_url, <<>>)
    /\ UNCHANGED workers

\* A write raises sqlite3.OperationalError (the database stays locked by
\* another connection for the busy timeout, the disk is full): nothing catches
\* it, get_db_connection closes the connection, which rolls back what is
\* pending, a 500. The body names the statement that raised, as the traceback
\* of the server does.
WriteFails(p) ==
    /\ pc[p] \in {"s_insert", "r_insert", "r_update"}
    /\ Respond(p, req[p], 500, req[p].short_code, None, <<pc[p]>>)
    /\ UNCHANGED <<workers, urls, analytics, redirects>>

\* ------------------------------------------------- DELETE /api/links/{short_code}

\* The UPDATE matches the active rows only: AND is_active = 1.
DeleteLinkActiveOnly(p) ==
    /\ pc[p] = "idle"
    /\ \E r \in CodeRequests("delete") :
        \/ /\ ~WriteLocked(p)
           /\ IF Cardinality(ActiveRowsByCode(urls, r.short_code)) = 0
              THEN /\ Respond(p, r, 404, r.short_code, None, <<>>)
                   /\ UNCHANGED urls
              ELSE /\ urls' = Deactivate(urls, r.short_code)
                   /\ Respond(p, r, 200, r.short_code, None, <<>>)
        \/ /\ Respond(p, r, 500, r.short_code, None, <<>>)
           /\ UNCHANGED urls
    /\ UNCHANGED <<workers, analytics, redirects>>

\* delete_link: with no row updated the handler raises the 404; else it
\* commits the UPDATE. The UPDATE is the first write of its transaction and
\* may raise sqlite3.OperationalError as the writes of WriteFails do.
DeleteLink(p) ==
    /\ pc[p] = "idle"
    /\ \E r \in CodeRequests("delete") :
        \/ /\ ~WriteLocked(p)
           /\ IF Cardinality(RowsByCode(urls, r.short_code)) = 0
              THEN /\ Respond(p, r, 404, r.short_code, None, <<>>)
                   /\ UNCHANGED urls
              ELSE /\ urls' = Deactivate(urls, r.short_code)
                   /\ Respond(p, r, 200, r.short_code, None, <<>>)
        \/ /\ Respond(p, r, 500, r.short_code, None, <<>>)
           /\ UNCHANGED urls
    /\ UNCHANGED <<workers, analytics, redirects>>

\* ------------------------------------------------- GET /api/links

\* get_all_links: the short codes of the active rows, newest first.
GetAllLinks(p) ==
    /\ pc[p] = "idle"
    /\ LET rows == NewestFirst({i \in 1..Len(urls) : urls[i].is_active})
       IN  Respond(p, LinksRequest, 200, None, None,
                   [k \in DOMAIN rows |-> urls[rows[k]].short_code])
    /\ UNCHANGED <<workers, urls, analytics, redirects>>

\* ------------------------------------------------- GET /api/analytics/{short_code}

\* The handler looks for the code among the active rows only.
AnalyticsLookupActiveOnly(p) ==
    /\ pc[p] = "idle"
    /\ \E r \in CodeRequests("analytics") :
        IF ActiveRowsByCode(urls, r.short_code) = {}
        THEN Respond(p, r, 404, r.short_code, None, <<>>)
        ELSE Goto(p, r, "a_clicks", NoLoc)
    /\ UNCHANGED <<workers, urls, analytics, redirects>>

\* get_url_analytics, to the 404 of a code no row has.
AnalyticsLookup(p) ==
    /\ pc[p] = "idle"
    /\ \E r \in CodeRequests("analytics") :
        IF RowsByCode(urls, r.short_code) = {}
        THEN Respond(p, r, 404, r.short_code, None, <<>>)
        ELSE Goto(p, r, "a_clicks", NoLoc)
    /\ UNCHANGED <<workers, urls, analytics, redirects>>

\* The clicks of the code, newest first: the response lists their rowids.
AnalyticsClicks(p) ==
    /\ pc[p] = "a_clicks"
    /\ Respond(p, req[p], 200, req[p].short_code, None,
               NewestFirst(ClicksOf(analytics, req[p].short_code)))
    /\ UNCHANGED <<workers, urls, analytics, redirects>>

\* ------------------------------------------------- the service

Next ==
    \/ Tick
    \/ Deliver
    \/ \E p \in Procs : ShortenLookup(p)
    \/ \E p \in Procs : ShortenGenerate(p)
    \/ \E p \in Procs : ShortenCheckCustom(p)
    \/ \E p \in Procs : ShortenInsert(p)
    \/ \E p \in Procs : ResolveLookup(p)
    \/ \E p \in Procs : ResolveInsert(p)
    \/ \E p \in Procs : ResolveRecord(p)
    \/ \E p \in Procs : WriteFails(p)
    \/ \E p \in Procs : DeleteLink(p)
    \/ \E p \in Procs : GetAllLinks(p)
    \/ \E p \in Procs : AnalyticsLookup(p)
    \/ \E p \in Procs : AnalyticsClicks(p)

\* The service run with several workers: the handlers interleave.
Spec == Init /\ [][Next]_vars

\* The service run as one worker: the handlers, which never await, run one
\* after the other.
SeqSpec == InitOne /\ [][Next]_vars

\* The requests that allocate and free short codes.
NextShorten ==
    \/ Deliver
    \/ \E p \in Procs : ShortenLookup(p)
    \/ \E p \in Procs : ShortenGenerate(p)
    \/ \E p \in Procs : ShortenCheckCustom(p)
    \/ \E p \in Procs : ShortenInsert(p)
    \/ \E p \in Procs : WriteFails(p)
    \/ \E p \in Procs : DeleteLink(p)

\* generate_short_code draws a code the table has not.
FreshDraw(p) == ShortenGenerate(p) /\ pc'[p] = "s_insert"

\* The service under shortens and deactivations, with fair random draws: a
\* handler that can again and again draw a free code does draw one, and a
\* response sent is delivered.
FairShortenSpec ==
    /\ Init
    /\ [][NextShorten]_vars
    /\ WF_vars(Deliver)
    /\ \A p \in Procs : SF_vars(FreshDraw(p))

\* ------------------------------------------------- the claims

\* The response resp answers a POST /api/shorten with 200.
Shortened(r) == r.op = "shorten" /\ r.status = 200

\* C1: when shorten succeeds for a valid URL u and returns the code c, a
\* resolve(c) issued next, with no deactivate in between, succeeds and returns
\* exactly u (the database accepting the write).
C1_ShortenThenResolve ==
    [][(/\ Shortened(resp)
        /\ resp'.op = "resolve"
        /\ resp'.short_code = resp.short_code
        /\ resp'.status # 500)
       => /\ resp'.status = 302
          /\ resp'.location = resp.original_url]_vars

\* C2: a shorten of a valid URL with no custom code that follows a successful
\* shorten of the same URL with no custom code returns the same short code,
\* inserts no row and leaves every click counter as it was.
C2_ShortenTwice ==
    [][(/\ Shortened(resp)
        /\ resp.custom_code = None
        /\ resp'.op = "shorten"
        /\ resp'.repeat)
       => /\ Shortened(resp')
          /\ resp'.short_code = resp.short_code
          /\ Len(urls') = Len(urls)
          /\ \A i \in 1..Len(urls) : urls'[i].clicks = urls[i].clicks]_vars

\* C2, its case: the second of two such calls has answered, for a link that
\* has clicks.
C2_Witness ==
    /\ Shortened(resp)
    /\ resp.custom_code = None
    /\ resp.repeat
    /\ \E i \in RowsByCode(urls, resp.short_code) : urls[i].clicks > 0

\* Some row of the table, active or not, has this short code.
CodeExists(rows, code) == \E i \in 1..Len(rows) : rows[i].short_code = code

\* The step sends a response without moving a handler: the handler that sends
\* it ran from its first statement to its return in this step.
AnswersAtOnce == resp = NoResp /\ resp' # NoResp /\ pc' = pc

\* The step answers a shorten that named a custom code some Link had when the
\* call began: the answer is not the one of the INSERT, which only a call
\* that found the code free reaches.
CustomCodeTaken ==
    /\ resp = NoResp
    /\ resp'.op = "shorten"
    /\ resp'.custom_code # None
    /\ CodeExists(urls, resp'.custom_code)
    /\ \A p \in Procs : pc[p] = "s_insert" => pc'[p] = "s_insert"

\* A handler that checks a custom code some Link has does not go on to the
\* INSERT.
TakenCodeNotInserted ==
    \A p \in Procs :
        pc[p] = "s_check" /\ CodeExists(urls, req[p].custom_code)
        => pc'[p] # "s_insert"

\* C3: a shorten called with a custom code that is the short code of an
\* existing Link, active or not, fails with HTTP 400 for every valid URL, and
\* the existing Link is not modified or replaced.
C3_CustomCodeConflict ==
    [][/\ TakenCodeNotInserted
       /\ CustomCodeTaken => resp'.status = 400 /\ urls' = urls]_vars

\* C3 as amended: such a call fails with HTTP 400 when its lookup finds no
\* active Link for the URL (the handler went on to check the code); when the
\* lookup finds one the call returns that Link with HTTP 200; in both cases
\* no Link is modified or replaced.
C3_CustomCodeConflictUnlessReuse ==
    [][/\ TakenCodeNotInserted
       /\ CustomCodeTaken =>
            /\ urls' = urls
            /\ IF \E p \in Procs : pc[p] = "s_check" /\ pc'[p] = "idle"
               THEN resp'.status = 400
               ELSE /\ resp'.status = 200
                    /\ \E i \in 1..Len(urls) :
                          /\ urls[i].original_url = resp'.original_url
                          /\ urls[i].is_active
                          /\ urls[i].short_code = resp'.short_code]_vars

\* C3, its case: a 400 for a custom code that a deactivated Link has.
C3_Witness ==
    /\ resp.op = "shorten"
    /\ resp.status = 400
    /\ resp.custom_code # None
    /\ \E i \in 1..Len(urls) :
          urls[i].short_code = resp.custom_code /\ ~urls[i].is_active

\* C4: in every committed state the click counter of each code is the number
\* of click events recorded for the code, and both are the number of
\* resolves answered with the redirect, however the resolves interleave.
C4_ClicksAreEvents ==
    \A c \in CodeSpace :
        /\ Cardinality({i \in 1..Len(analytics) : analytics[i].short_code = c})
              = redirects[c]
        /\ \A i \in 1..Len(urls) :
              urls[i].short_code = c => urls[i].clicks = redirects[c]

\* C4, its case: of two resolves of one code in flight together, one has
\* committed and sent its redirect, the other is still to write.
C4_Witness ==
    /\ resp.op = "resolve"
    /\ resp.status = 302
    /\ \E p \in Procs :
          pc[p] = "r_insert" /\ req[p].short_code = resp.short_code

\* The row with this code is active and its expiration is strictly in the past.
ActiveAndExpired(rows, code) ==
    \E i \in 1..Len(rows) :
        /\ rows[i].short_code = code
        /\ rows[i].is_active
        /\ rows[i].expires_at # Absent
        /\ rows[i].expires_at[1] < datetime_now

\* C5: a resolve of a code whose Link is active and whose expiration is
\* strictly in the past fails with HTTP 410 and leaves the click counters and
\* the click events as they were.
C5_ExpiredIs410 ==
    [][/\ (AnswersAtOnce /\ resp'.op = "resolve"
                         /\ ActiveAndExpired(urls, resp'.short_code))
          => resp'.status = 410 /\ urls' = urls /\ analytics' = analytics
       /\ \A p \in Procs :
            pc[p] = "idle" /\ pc'[p] = "r_insert"
            => ~ActiveAndExpired(urls, req'[p].short_code)]_vars

\* C5, its case: a 410 for a Link that was clicked before it expired.
C5_Witness ==
    /\ resp.op = "resolve"
    /\ resp.status = 410
    /\ ActiveAndExpired(urls, resp.short_code)
    /\ \E i \in 1..Len(urls) :
          urls[i].short_code = resp.short_code /\ urls[i].clicks > 0

\* No Link has this code, or the Link that has it is not active.
UnknownOrInactive(rows, code) ==
    \A i \in 1..Len(rows) : rows[i].short_code = code => ~rows[i].is_active

\* C6: a resolve of a code that no Link has, or whose Link is not active,
\* fails with HTTP 404 and changes neither table.
C6_UnknownIs404 ==
    [][/\ (AnswersAtOnce /\ resp'.op = "resolve"
                         /\ UnknownOrInactive(urls, resp'.short_code))
          => resp'.status = 404 /\ urls' = urls /\ analytics' = analytics
       /\ \A p \in Procs :
            pc[p] = "idle" /\ pc'[p] = "r_insert"
            => ~UnknownOrInactive(urls, req'[p].short_code)]_vars

\* C6, its case: a 404 for the code of a deactivated Link that has clicks.
C6_Witness ==
    /\ resp.op = "resolve"
    /\ resp.status = 404
    /\ \E i \in 1..Len(urls) :
          /\ urls[i].short_code = resp.short_code
          /\ ~urls[i].is_active
          /\ urls[i].clicks > 0

\* The click events of a code, as a set of rowids.
EventsOf(code) == {i \in 1..Len(analytics) : analytics[i].short_code = code}

\* The elements of a sequence.
Range(seq) == {seq[k] : k \in DOMAIN seq}

\* C7: once deactivate has succeeded on a code, every resolve of the code
\* that starts afterwards fails with HTTP 404 whatever shortens come between,
\* the list of active links does not show the code, and the analytics query
\* for the code still succeeds and returns every click event recorded for it.
C7_AfterDeactivate ==
    [][\A c \in CodeSpace :
        (\E i \in 1..Len(urls) : urls[i].short_code = c /\ ~urls[i].is_active)
        => /\ UnknownOrInactive(urls', c)
           /\ Len(analytics') >= Len(analytics)
           /\ \A i \in EventsOf(c) : analytics'[i] = analytics[i]
           /\ \A p \in Procs :
                pc[p] = "idle" /\ req'[p].op = "resolve"
                => req'[p].short_code # c
           /\ (AnswersAtOnce /\ resp'.op = "resolve" /\ resp'.short_code = c)
                => resp'.status = 404
           /\ (resp = NoResp /\ resp'.op = "links") => c \notin Range(resp'.body)
           /\ (resp = NoResp /\ resp'.op = "analytics" /\ resp'.short_code = c)
                => /\ resp'.status = 200
                   /\ Range(resp'.body) = EventsOf(c)
                   /\ Len(resp'.body) = Cardinality(EventsOf(c))]_vars

\* C7, its case: the analytics query answered for a deactivated code that
\* has click events.
C7_Witness ==
    /\ resp.op = "analytics"
    /\ resp.status = 200
    /\ resp.body # <<>>
    /\ \E i \in 1..Len(urls) :
          urls[i].short_code = resp.short_code /\ ~urls[i].is_active

\* C8: in every reachable state, also between interleaved shortens, no two
\* Link rows, active or not, have the same short code.
C8_UniqueShortCode ==
    \A i, j \in 1..Len(urls) :
        urls[i].short_code = urls[j].short_code => i = j

\* C8, its case: a shorten is about to insert a code that a shorten running
\* beside it has inserted since the first found the code free.
C8_Witness ==
    \E p \in Procs :
        /\ pc[p] = "s_insert"
        /\ CodeExists(urls, loc[p].short_code)

\* C9: a Link starts active, its active flag only ever goes from true to
\* false, and no operation removes a Link row.
C9_ActiveOnlyFalls ==
    [][/\ Len(urls') >= Len(urls)
       /\ \A i \in 1..Len(urls) :
            /\ urls'[i].id = urls[i].id
            /\ urls'[i].short_code = urls[i].short_code
            /\ urls'[i].original_url = urls[i].original_url
            /\ ~urls[i].is_active => ~urls'[i].is_active
       /\ \A i \in (Len(urls) + 1)..Len(urls') : urls'[i].is_active]_vars

\* C9, its case: the URL of a deactivated Link was shortened again, which made
\* a new active Link and left the old one inactive.
C9_Witness ==
    \E i, j \in 1..Len(urls) :
        /\ i < j
        /\ urls[j].original_url = urls[i].original_url
        /\ ~urls[i].is_active
        /\ urls[j].is_active

\* C10: a Link that shorten creates expires at now + expiresInDays days for
\* every integer the caller supplied, 0 and the negative ones too, and has no
\* expiration only when the caller supplied none.
C10_ExpiresAtIsNowPlusDays ==
    [][(resp'.op = "shorten" /\ Len(urls') = Len(urls) + 1)
       => LET days == resp'.expires_in_days
              link == urls'[Len(urls')]
          IN  IF days = Absent
              THEN link.expires_at = Absent
              ELSE link.expires_at = <<datetime_now + days[1]>>]_vars

\* C11: a deactivate of a code that no Link has fails with HTTP 404 and
\* leaves the store as it was; a deactivate of a code that a Link has, active
\* or not, reports success and leaves that Link inactive, with its other
\* fields and every other row as they were (the database accepting the write).
C11_Deactivate ==
    [][(resp' # resp /\ resp'.op = "delete" /\ resp'.status # 500)
       => LET c == resp'.short_code
          IN  /\ analytics' = analytics
              /\ IF ~CodeExists(urls, c)
                 THEN resp'.status = 404 /\ urls' = urls
                 ELSE /\ resp'.status = 200
                      /\ Len(urls') = Len(urls)
                      /\ \A i \in 1..Len(urls) :
                            urls'[i] = IF urls[i].short_code = c
                                       THEN [urls[i] EXCEPT !.is_active = FALSE]
                                       ELSE urls[i]]_vars

\* C11, its case: a deactivate has reported success for a Link that was
\* inactive before the call: the one worker has since made a newer Link for
\* the same URL, which it does only when the URL has no active Link.
C11_Witness ==
    /\ workers = 1
    /\ resp.op = "delete"
    /\ resp.status = 200
    /\ \E i, j \in 1..Len(urls) :
          /\ i < j
          /\ urls[i].short_code = resp.short_code
          /\ urls[j].original_url = urls[i].original_url
          /\ ~urls[i].is_active

\* C12: when two shortens of different URLs with the same custom code both
\* pass the check of the code before either inserts, one creates the Link
\* and the other, whose INSERT meets the code in the table, fails with HTTP
\* 400, the code conflict, and with no other failure.
C12_CustomCodeRace ==
    [][\A p \in Procs :
        (/\ pc[p] = "s_insert"
         /\ pc'[p] = "idle"
         /\ req[p].custom_code # None
         /\ \E i \in 1..Len(urls) :
               /\ urls[i].short_code = req[p].custom_code
               /\ urls[i].original_url # req[p].original_url)
        => resp'.status = 400 /\ urls' = urls]_vars

\* C13: the two writes of a resolve are all or nothing: the click event is
\* not visible before the commit; a resolve that fails at a write, or anywhere
\* before the commit, is reported as a failure with no redirect target, and
\* leaves neither the click event nor the increment in the store; a resolve
\* that redirects leaves both.
C13_ResolveAllOrNothing ==
    [][\A p \in Procs :
        /\ (pc[p] = "r_insert" /\ pc'[p] = "r_update")
             => urls' = urls /\ analytics' = analytics
        /\ (pc[p] \in {"r_insert", "r_update"} /\ pc'[p] = "idle")
             => IF resp'.status = 302
                THEN /\ Len(analytics') = Len(analytics) + 1
                     /\ analytics'[Len(analytics')].short_code = req[p].short_code
                     /\ \A i \in 1..Len(urls) :
                           urls[i].short_code = req[p].short_code
                           => urls'[i].clicks = urls[i].clicks + 1
                ELSE /\ resp'.status = 500
                     /\ resp'.location = None
                     /\ urls' = urls
                     /\ analytics' = analytics
                     /\ ~loc'[p].pending]_vars

\* C13, its case: a resolve has failed at its UPDATE, after its INSERT, and
\* the store has no click event of the code.
C13_Witness ==
    /\ resp.op = "resolve"
    /\ resp.status = 500
    /\ resp.body = <<"r_update">>
    /\ \A i \in 1..Len(analytics) : analytics[i].short_code # resp.short_code

\* C14: click counters and click events change only through a successful
\* resolve: a resolve answered with the redirect adds exactly 1 to the
\* counter of its code and appends exactly one click event of the code, and
\* leaves every other counter and every existing event as it was; every
\* other step leaves all counters and all events as they were.
C14_OnlyResolveCounts ==
    [][/\ Len(urls') >= Len(urls)
       /\ \A i \in (Len(urls) + 1)..Len(urls') : urls'[i].clicks = 0
       /\ IF resp'.op = "resolve" /\ resp'.status = 302 /\ resp' # resp
          THEN LET c == resp'.short_code
               IN  /\ analytics' = Append(analytics,
                                          [id |-> Len(analytics) + 1, short_code |-> c])
                   /\ \A i \in 1..Len(urls) :
                         urls'[i].clicks = urls[i].clicks
                                           + IF urls[i].short_code = c THEN 1 ELSE 0
          ELSE /\ analytics' = analytics
               /\ \A i \in 1..Len(urls) : urls'[i].clicks = urls[i].clicks]_vars

\* C14, its case: a resolve has redirected while the store holds another
\* Link with a click and its event.
C14_Witness ==
    /\ resp.op = "resolve"
    /\ resp.status = 302
    /\ \E i \in 1..Len(urls) :
          urls[i].short_code # resp.short_code /\ urls[i].clicks > 0
    /\ \E i \in 1..Len(analytics) : analytics[i].short_code # resp.short_code

\* The URL has an active Link.
HasActiveLink(rows, url) ==
    \E i \in 1..Len(rows) : rows[i].original_url = url /\ rows[i].is_active

\* C15: a shorten of a URL that has an active Link ignores the custom code
\* and the expires_in_days it is given: it returns the code of the existing
\* Link, inserts no row and leaves the expiration of the Link as it was, and
\* the custom code, if no Link had it, stays free for a later shorten.
C15_ReuseIgnoresParameters ==
    [][/\ \A p \in Procs :
            (pc[p] = "idle" /\ pc'[p] \in {"s_gen", "s_check"})
            => ~HasActiveLink(urls, req'[p].original_url)
       /\ (AnswersAtOnce /\ resp'.op = "shorten"
                         /\ HasActiveLink(urls, resp'.original_url))
            => /\ resp'.status = 200
               /\ \E i \in 1..Len(urls) :
                     /\ urls[i].original_url = resp'.original_url
                     /\ urls[i].is_active
                     /\ urls[i].short_code = resp'.short_code
               /\ urls' = urls
               /\ CodeExists(urls', resp'.custom_code)
                    => CodeExists(urls, resp'.custom_code)]_vars

\* C15, its case: a shorten given a free custom code and an expires_in_days
\* has returned the code of the existing Link, which has no expiration, and
\* the custom code is still free.
C15_Witness ==
    /\ resp.op = "shorten"
    /\ resp.status = 200
    /\ resp.custom_code # None
    /\ resp.short_code # resp.custom_code
    /\ resp.expires_in_days # Absent
    /\ ~CodeExists(urls, resp.custom_code)
    /\ \E i \in 1..Len(urls) :
          /\ urls[i].short_code = resp.short_code
          /\ urls[i].original_url = resp.original_url
          /\ urls[i].expires_at = Absent

\* C16: a shorten with no custom code draws codes until it draws one that no
\* row has, and under fair draws it leaves the loop whenever a code of the
\* keyspace is unused; the Link it creates has a code that no other row has.
C16_GeneratorTerminates ==
    /\ [][\A p \in Procs :
            /\ pc[p] = "s_gen"
                 => /\ pc'[p] \in {"s_gen", "s_insert"}
                    /\ pc'[p] = "s_insert"
                         => ~CodeExists(urls, loc'[p].short_code)
            /\ (pc[p] = "s_insert" /\ Len(urls') = Len(urls) + 1)
                 => ~CodeExists(urls, urls'[Len(urls')].short_code)]_vars
    /\ \A p \in Procs :
          (pc[p] = "s_gen" /\ \E c \in CodeSpace : ~CodeExists(urls, c))
          ~> (pc[p] # "s_gen")

\* C16, its case: the loop has drawn a code that a row has and goes round
\* again.
C16_Witness ==
    \E p \in Procs :
        /\ pc[p] = "s_gen"
        /\ loc[p].short_code # None
        /\ CodeExists(urls, loc[p].short_code)

InactiveAndExpired(rows, code) ==
    \E i \in 1..Len(rows) :
        /\ rows[i].short_code = code
        /\ ~rows[i].is_active
        /\ rows[i].expires_at # Absent
        /\ rows[i].expires_at[1] < datetime_now

ActiveAndExpiringNow(rows, code) ==
    \E i \in 1..Len(rows) :
        /\ rows[i].short_code = code
        /\ rows[i].is_active
        /\ rows[i].expires_at = <<datetime_now>>

\* C17: resolve looks the code up among the active rows before it looks at
\* the expiration: a deactivated Link past its expiration is answered 404,
\* never 410 (a resolve that finds it so is answered 404 and writes nothing),
\* and an active Link whose expiration is exactly now is not expired: the
\* resolve is answered neither 410 nor 404 and goes on to record the click.
C17_LookupBeforeExpiry ==
    [][/\ (AnswersAtOnce /\ resp'.op = "resolve"
                         /\ InactiveAndExpired(urls, resp'.short_code))
          => resp'.status = 404 /\ urls' = urls /\ analytics' = analytics
       /\ (resp = NoResp /\ resp' # NoResp /\ resp'.op = "resolve"
                          /\ InactiveAndExpired(urls, resp'.short_code))
          => resp'.status # 410
       /\ (resp = NoResp /\ resp' # NoResp /\ resp'.op = "resolve"
                          /\ ActiveAndExpiringNow(urls, resp'.short_code))
          => resp'.status \notin {404, 410}
       /\ \A p \in Procs :
            (pc[p] = "idle" /\ pc'[p] = "r_insert")
            => ~InactiveAndExpired(urls, req'[p].short_code)]_vars

\* C17, its cases: a resolve of a deactivated, expired Link has been answered
\* 404 while another resolve, of a Link expiring at this very instant, has
\* passed the expiration test.
C17_Witness ==
    /\ resp.op = "resolve"
    /\ resp.status = 404
    /\ InactiveAndExpired(urls, resp.short_code)
    /\ \E p \in Procs :
          /\ pc[p] = "r_insert"
          /\ ActiveAndExpiringNow(urls, req[p].short_code)

\* C18: in every reachable state, those reached by interleaved shortens of
\* one URL included, at most one active Link exists per original URL.
C18_OneActiveLinkPerUrl ==
    \A i, j \in 1..Len(urls) :
        (/\ urls[i].original_url = urls[j].original_url
         /\ urls[i].is_active
         /\ urls[j].is_active)
        => i = j

ClickCounters(rows, code) ==
    {rows[i].clicks : i \in {k \in 1..Len(rows) : rows[k].short_code = code}}

\* C19: once the deactivation of a code has been committed, no step changes
\* the click counter of that code or the number of its click events, not
\* even a step of a resolve that read the Link as active before.
C19_FrozenAfterDeactivate ==
    [][\A c \in CodeSpace :
        (\E i \in 1..Len(urls) : urls[i].short_code = c /\ ~urls[i].is_active)
        => /\ ClickCounters(urls', c) = ClickCounters(urls, c)
           /\ Cardinality({i \in 1..Len(analytics') :
                              analytics'[i].short_code = c})
                = Cardinality(EventsOf(c))]_vars

====
